---- MODULE Spec2Model ----
(***************************************************************************)
(* State-machine model of the sf-automator scripts: autmation.py           *)
(* (placeholder-rewriting batch runner), ddl_automation.py (validating,    *)
(* menu-driven batch runner) and drop_automator.py (drop orchestrator).    *)
(* Text is modelled as sequences of one-character strings so that the      *)
(* regular expressions, strip/split/join calls and sorts of the source are *)
(* computed, not assumed.                                                  *)
(***************************************************************************)
EXTENDS Integers, Sequences, FiniteSets, TLC

VARIABLES
    script,         \* the entry point that is running
    pc,             \* position of the running flow
    config,         \* the loaded configuration (section -> key -> text)
    ddl_files,      \* the directory layout under ddl_root: records folder, name, text
    listing_stdout, \* what the warehouse's listing prints, per object type
    calls,          \* the subprocess invocations made so far, in order
    ret,            \* what the last operation returned
    file_prefix,    \* ddl_automation: the prefix selected at the menu
    stage_idx,      \* autmation: index in schema_order of the stage being processed
    file_info,      \* the files of the last batch, in batch order
    prompts,        \* the prompts shown to the operator and the answers typed
    views_success,  \* drop_all_objects: what the VIEW step returned
    object_names,   \* drop_objects_by_type: the names parsed from the last listing
    os_environ,     \* the environment of the script's own process
    connection,     \* main(): "untested", or what the connectivity test returned
    sql_text,       \* Schema Resolver: the query text handed to the resolver
    rewritten,      \* Schema Resolver: outputs of successive resolver passes
    detected        \* Validator: what extract_schema_from_file returned, once called

vars == <<script, pc, config, ddl_files, listing_stdout, calls, ret, file_prefix,
          stage_idx, file_info, prompts, views_success, object_names, os_environ,
          connection, sql_text, rewritten, detected>>

(***************************************************************************)
(* Characters and Python str primitives                                    *)
(***************************************************************************)
LowerLetters == <<"a","b","c","d","e","f","g","h","i","j","k","l","m",
                  "n","o","p","q","r","s","t","u","v","w","x","y","z">>
UpperLetters == <<"A","B","C","D","E","F","G","H","I","J","K","L","M",
                  "N","O","P","Q","R","S","T","U","V","W","X","Y","Z">>
DigitChars == {"0","1","2","3","4","5","6","7","8","9"}

Range(s) == {s[i] : i \in 1..Len(s)}

\* A character is a one-character string. A code point that a string literal
\* cannot hold, or that does not show in print, is written "U+XXXX" and is one
\* character all the same. The modelled alphabet is the printable part of
\* Latin-1, every character of Latin-1 that Python counts as whitespace, and
\* the three characters outside Latin-1 that str.upper() and str.lower() reach
\* from it. Each sequence is in increasing code point order: Python compares
\* str values code point by code point.
Ascii == <<"\t", "\n", "U+000B", "\f", "\r", "U+001C", "U+001D", "U+001E", "U+001F",
           " ","!","\"","#","$","%","&","'","(",")","*","+",",","-",".","/",
           "0","1","2","3","4","5","6","7","8","9",":",";","<","=",">","?","@",
           "A","B","C","D","E","F","G","H","I","J","K","L","M","N","O","P","Q",
           "R","S","T","U","V","W","X","Y","Z","[","\\","]","^","_","U+0060",
           "a","b","c","d","e","f","g","h","i","j","k","l","m","n","o","p","q",
           "r","s","t","u","v","w","x","y","z","{","|","}","~">>

Latin1 == <<"U+0085", "U+00A0",
            "¡","¢","£","¤","¥","¦","§","¨","©","ª","«","¬","U+00AD","®","¯",
            "°","±","²","³","´","µ","¶","·","¸","¹","º","»","¼","½","¾","¿",
            "À","Á","Â","Ã","Ä","Å","Æ","Ç","È","É","Ê","Ë","Ì","Í","Î","Ï",
            "Ð","Ñ","Ò","Ó","Ô","Õ","Ö","×","Ø","Ù","Ú","Û","Ü","Ý","Þ","ß",
            "à","á","â","ã","ä","å","æ","ç","è","é","ê","ë","ì","í","î","ï",
            "ð","ñ","ò","ó","ô","õ","ö","÷","ø","ù","ú","û","ü","ý","þ","ÿ">>

\* U+0178 (capital Y with diaeresis), U+039C and U+03BC (Greek mu)
BeyondLatin1 == <<"U+0178", "Μ", "μ">>

CodePoints == Ascii \o Latin1 \o BeyondLatin1

OrdTable == [c \in Range(CodePoints) |->
                CHOOSE i \in 1..Len(CodePoints) : CodePoints[i] = c]
Ord(c) == OrdTable[c]

\* the cased letters of the alphabet: CasedUpper[i].lower() = CasedLower[i]
\* and CasedLower[i].upper() = CasedUpper[i]
CasedUpper == UpperLetters \o
    <<"À","Á","Â","Ã","Ä","Å","Æ","Ç","È","É","Ê","Ë","Ì","Í","Î","Ï",
      "Ð","Ñ","Ò","Ó","Ô","Õ","Ö","Ø","Ù","Ú","Û","Ü","Ý","Þ","U+0178","Μ">>
CasedLower == LowerLetters \o
    <<"à","á","â","ã","ä","å","æ","ç","è","é","ê","ë","ì","í","î","ï",
      "ð","ñ","ò","ó","ô","õ","ö","ø","ù","ú","û","ü","ý","þ","ÿ","μ">>

\* str.lower() / str.upper() on one character
LowerTable ==
    [c \in Range(CasedUpper) |->
        CasedLower[CHOOSE i \in 1..Len(CasedUpper) : CasedUpper[i] = c]]
UpperTable ==
    [c \in Range(CasedLower) |->
        CasedUpper[CHOOSE i \in 1..Len(CasedLower) : CasedLower[i] = c]]

lower_char(c) == IF c \in DOMAIN LowerTable THEN LowerTable[c] ELSE c

\* c.upper() is a text: the sharp s becomes two characters, and the micro
\* sign becomes the Greek capital mu
upper_char(c) ==
    IF c = "ß" THEN <<"S", "S">>
    ELSE IF c = "µ" THEN <<"Μ">>
    ELSE IF c \in DOMAIN UpperTable THEN <<UpperTable[c]>>
    ELSE <<c>>

\* concatenation of a sequence of texts
RECURSIVE Concat(_)
Concat(parts) == IF parts = <<>> THEN <<>> ELSE Head(parts) \o Concat(Tail(parts))

str_lower(s) == [i \in 1..Len(s) |-> lower_char(s[i])]
str_upper(s) == Concat([i \in 1..Len(s) |-> upper_char(s[i])])

\* the regex class \w of a str pattern: what str.isalnum() accepts, and "_"
WordChars ==
    Range(LowerLetters) \cup Range(UpperLetters) \cup DigitChars \cup {"_"}
    \cup Range(CasedUpper) \cup Range(CasedLower)
    \cup {"ª", "²", "³", "µ", "¹", "º", "¼", "½", "¾", "ß"}

\* the whitespace of str.strip() and of the regex class \s: what
\* str.isspace() accepts
SpaceChars == {"\t", "\n", "U+000B", "\f", "\r", "U+001C", "U+001D", "U+001E",
               "U+001F", " ", "U+0085", "U+00A0"}
IsWordChar(c) == c \in WordChars

\* the newline translation of text-mode reading (open(..., 'r') and
\* subprocess.run(..., text=True)): "\r\n" and a lone "\r" become "\n"
RECURSIVE universal_newlines(_)
universal_newlines(s) ==
    IF s = <<>> THEN <<>>
    ELSE IF Head(s) = "\r"
    THEN IF Len(s) >= 2 /\ s[2] = "\n"
         THEN <<"\n">> \o universal_newlines(SubSeq(s, 3, Len(s)))
         ELSE <<"\n">> \o universal_newlines(Tail(s))
    ELSE <<Head(s)>> \o universal_newlines(Tail(s))

\* s.strip(chars): drop leading and trailing characters that are in chars
RECURSIVE lstrip_chars(_, _)
lstrip_chars(s, chars) ==
    IF s # <<>> /\ Head(s) \in chars THEN lstrip_chars(Tail(s), chars) ELSE s

RECURSIVE rstrip_chars(_, _)
rstrip_chars(s, chars) ==
    IF s # <<>> /\ s[Len(s)] \in chars
    THEN rstrip_chars(SubSeq(s, 1, Len(s) - 1), chars)
    ELSE s

strip_chars(s, chars) == rstrip_chars(lstrip_chars(s, chars), chars)
str_strip(s) == strip_chars(s, SpaceChars)

\* s.startswith(p)
startswith(s, p) == Len(p) <= Len(s) /\ SubSeq(s, 1, Len(p)) = p

\* sep.join(parts)
RECURSIVE str_join(_, _)
str_join(sep, parts) ==
    IF parts = <<>> THEN <<>>
    ELSE IF Len(parts) = 1 THEN parts[1]
    ELSE parts[1] \o sep \o str_join(sep, Tail(parts))

\* all sequences over S of length 0..n
SeqsUpTo(S, n) == UNION {[1..k -> S] : k \in 0..n}

(***************************************************************************)
(* Schema Resolver (autmation.py)                                          *)
(***************************************************************************)
T_raw == <<"r","a","w">>
T_stage == <<"s","t","a","g","e">>
T_curated == <<"c","u","r","a","t","e","d">>

\* regex \b at the gap before s[i]: exactly one side is a word character
WordBoundary(s, i) ==
    LET before == i > 1 /\ i - 1 <= Len(s) /\ IsWordChar(s[i - 1])
        after  == i >= 1 /\ i <= Len(s) /\ IsWordChar(s[i])
    IN  before # after

\* the pattern  <token>\.  without the leading \b
TokenDotAt_unanchored(token, s, i) ==
    /\ i + Len(token) <= Len(s)
    /\ SubSeq(s, i, i + Len(token) - 1) = token
    /\ s[i + Len(token)] = "."

\* the pattern  \b<token>\.  matches s at position i
TokenDotAt(token, s, i) ==
    /\ i + Len(token) <= Len(s)
    /\ SubSeq(s, i, i + Len(token) - 1) = token
    /\ s[i + Len(token)] = "."
    /\ WordBoundary(s, i)

\* re.sub(r'\b<token>\.', repl, s): leftmost non-overlapping matches, left
\* to right (repl holds no backslash, so it is inserted literally)
RECURSIVE re_sub_from(_, _, _, _)
re_sub_from(token, repl, s, i) ==
    IF i > Len(s) THEN <<>>
    ELSE IF TokenDotAt(token, s, i)
         THEN repl \o re_sub_from(token, repl, s, i + Len(token) + 1)
         ELSE <<s[i]>> \o re_sub_from(token, repl, s, i + 1)

re_sub(token, repl, s) == re_sub_from(token, repl, s, 1)

\* the third substitution writing the second schema's name
replace_schema_placeholders_curated_as_second(query, cfg) ==
    LET first_schema  == cfg["schemas"]["1st_schema"]
        second_schema == cfg["schemas"]["2nd_schema"]
        q1 == re_sub(T_raw, first_schema \o <<".">>, query)
        q2 == re_sub(T_stage, second_schema \o <<".">>, q1)
        q3 == re_sub(T_curated, second_schema \o <<".">>, q2)
    IN  q3

\* autmation.py 14-25: three re.sub passes in the order raw, stage, curated
replace_schema_placeholders(query, cfg) ==
    LET first_schema  == cfg["schemas"]["1st_schema"]
        second_schema == cfg["schemas"]["2nd_schema"]
        third_schema  == cfg["schemas"]["3rd_schema"]
        q1 == re_sub(T_raw, first_schema \o <<".">>, query)
        q2 == re_sub(T_stage, second_schema \o <<".">>, q1)
        q3 == re_sub(T_curated, third_schema \o <<".">>, q2)
    IN  q3

(***************************************************************************)
(* File Discovery: os.listdir + sort, glob + sort                          *)
(***************************************************************************)
\* a < b for Python str values
RECURSIVE str_less(_, _)
str_less(a, b) ==
    IF b = <<>> THEN FALSE
    ELSE IF a = <<>> THEN TRUE
    ELSE IF Head(a) = Head(b) THEN str_less(Tail(a), Tail(b))
    ELSE Ord(Head(a)) < Ord(Head(b))

\* list.sort() of a collection of distinct str values
RECURSIVE sorted_texts(_)
sorted_texts(S) ==
    IF S = {} THEN <<>>
    ELSE LET m == CHOOSE x \in S : \A y \in S \ {x} : str_less(x, y)
         IN  <<m>> \o sorted_texts(S \ {m})

endswith(s, p) == Len(p) <= Len(s) /\ SubSeq(s, Len(s) - Len(p) + 1, Len(s)) = p

DotSql == <<".","s","q","l">>

\* a match against f"{prefix}*.sql", without the dot after the prefix
fnmatch_prefix_undotted(name, prefix) ==
    /\ Len(name) >= Len(prefix) + Len(DotSql)
    /\ startswith(name, prefix)
    /\ endswith(name, DotSql)

\* glob's match of a file name against f"{prefix}.*.sql" (POSIX: case-sensitive;
\* the prefix holds no glob metacharacter)
fnmatch_prefix(name, prefix) ==
    /\ Len(name) >= Len(prefix) + 1 + Len(DotSql)
    /\ startswith(name, prefix \o <<".">>)
    /\ endswith(name, DotSql)

\* the table folders, sorted (ddl_automation.py 75-76, autmation.py 73-74)
table_folders(layout) == sorted_texts({f.folder : f \in layout})

\* glob.glob(os.path.join(table_folder, f"{prefix}.*.sql")) then sort()
sql_files(layout, folder, prefix) ==
    sorted_texts({f.name : f \in {g \in layout : g.folder = folder /\ fnmatch_prefix(g.name, prefix)}})

\* open(sql_file, 'r', encoding='utf-8').read(): the text of the file as
\* text-mode reading delivers it
read_file(layout, folder, name) ==
    LET stored == (CHOOSE f \in layout : f.folder = folder /\ f.name = name).text
    IN  universal_newlines(stored)

\* the files visited by the two nested loops, in visiting order
RECURSIVE discovered_from(_, _, _)
discovered_from(layout, folders, prefix) ==
    IF folders = <<>> THEN <<>>
    ELSE LET names == sql_files(layout, Head(folders), prefix)
         IN  [i \in 1..Len(names) |-> [folder |-> Head(folders), name |-> names[i]]]
             \o discovered_from(layout, Tail(folders), prefix)

discovered(layout, prefix) == discovered_from(layout, table_folders(layout), prefix)

(***************************************************************************)
(* Validator: extract_schema_from_file (ddl_automation.py)                 *)
(***************************************************************************)
K_CREATE == <<"C","R","E","A","T","E">>
K_OR == <<"O","R">>
K_REPLACE == <<"R","E","P","L","A","C","E">>

\* the literal word matches s at i under re.IGNORECASE
literal_at(s, i, word) ==
    /\ i >= 1
    /\ i + Len(word) - 1 <= Len(s)
    /\ \A k \in 1..Len(word) : lower_char(s[i + k - 1]) = lower_char(word[k])

space_at(s, i) == i >= 1 /\ i <= Len(s) /\ s[i] \in SpaceChars
word_at(s, i) == i >= 1 /\ i <= Len(s) /\ IsWordChar(s[i])

\* the index after the longest run of \s (resp. \w) that starts at i
RECURSIVE skip_spaces(_, _)
skip_spaces(s, i) == IF space_at(s, i) THEN skip_spaces(s, i + 1) ELSE i

RECURSIVE skip_word(_, _)
skip_word(s, i) == IF word_at(s, i) THEN skip_word(s, i + 1) ELSE i

\* <KEYWORD>\s+(\w+)\.  at j: the captured group, or <<>> when there is no match
object_tail(s, j, keyword) ==
    LET k == skip_spaces(s, j + Len(keyword))
        m == skip_word(s, k)
    IN  IF /\ literal_at(s, j, keyword)
           /\ space_at(s, j + Len(keyword))
           /\ word_at(s, k)
           /\ m <= Len(s)
           /\ s[m] = "."
        THEN SubSeq(s, k, m - 1)
        ELSE <<>>

\* CREATE\s+(?:OR\s+REPLACE\s+)?<KEYWORD>\s+(\w+)\.  anchored at i
create_at(s, i, keyword) ==
    LET j2 == skip_spaces(s, i + Len(K_CREATE))
        j3 == skip_spaces(s, j2 + Len(K_OR))
        j4 == skip_spaces(s, j3 + Len(K_REPLACE))
        or_replace == /\ literal_at(s, j2, K_OR)
                      /\ space_at(s, j2 + Len(K_OR))
                      /\ literal_at(s, j3, K_REPLACE)
                      /\ space_at(s, j3 + Len(K_REPLACE))
    IN  IF ~(literal_at(s, i, K_CREATE) /\ space_at(s, i + Len(K_CREATE))) THEN <<>>
        ELSE IF or_replace THEN object_tail(s, j4, keyword)
             ELSE object_tail(s, j2, keyword)

\* re.search(pattern, s, re.IGNORECASE).group(1): the leftmost match, <<>> if none
RECURSIVE re_search_from(_, _, _)
re_search_from(s, i, keyword) ==
    IF i > Len(s) THEN <<>>
    ELSE LET group1 == create_at(s, i, keyword)
         IN  IF group1 # <<>> THEN group1 ELSE re_search_from(s, i + 1, keyword)

re_search_create(s, keyword) == re_search_from(s, 1, keyword)

\* None is modelled as the empty text (a captured \w+ is never empty)
extract_schema_from_file(file_content) ==
    LET table_match == re_search_create(file_content, <<"T","A","B","L","E">>)
        view_match == re_search_create(file_content, <<"V","I","E","W">>)
    IN  IF table_match # <<>> THEN str_lower(table_match)
        ELSE IF view_match # <<>> THEN str_lower(view_match)
        ELSE <<>>

(***************************************************************************)
(* Batch Builder                                                           *)
(***************************************************************************)
BatchSeparator == <<";", "\n", "\n">>

\* the join without the final ';'
batch_query_of_unterminated(batch_statements) == str_join(BatchSeparator, batch_statements)

\* ";\n\n".join(batch_statements) + ";"
batch_query_of(batch_statements) == str_join(BatchSeparator, batch_statements) \o <<";">>

Unknown == <<"u","n","k","n","o","w","n">>

\* the loop body skipping a mismatching file instead of flagging it
validate_file_skipping(acc, layout, f, prefix) ==
    LET query == str_strip(read_file(layout, f.folder, f.name))
        detected_schema == extract_schema_from_file(query)
        entry(d) == [folder |-> f.folder, name |-> f.name, detected_schema |-> d,
                     query |-> query]
    IN  IF query = <<>> THEN acc
        ELSE IF detected_schema # <<>> /\ str_lower(detected_schema) # str_lower(prefix)
        THEN acc
        ELSE IF detected_schema # <<>>
        THEN [acc EXCEPT !.file_info = Append(@, entry(detected_schema)),
                         !.batch_statements = Append(@, query)]
        ELSE [acc EXCEPT !.batch_statements = Append(@, query),
                         !.file_info = Append(@, entry(Unknown))]

\* the body of the inner loop of execute_schema_files for one file
\* (ddl_automation.py 93-126); acc holds batch_statements, file_info and
\* schema_mismatch_found
validate_file(acc, layout, f, prefix) ==
    LET query == str_strip(read_file(layout, f.folder, f.name))
        detected_schema == extract_schema_from_file(query)
        entry(d) == [folder |-> f.folder, name |-> f.name, detected_schema |-> d,
                     query |-> query]
    IN  IF query = <<>> THEN acc
        ELSE IF detected_schema # <<>> /\ str_lower(detected_schema) # str_lower(prefix)
        THEN [acc EXCEPT !.schema_mismatch_found = TRUE]
        ELSE IF detected_schema # <<>>
        THEN [acc EXCEPT !.file_info = Append(@, entry(detected_schema)),
                         !.batch_statements = Append(@, query)]
        ELSE [acc EXCEPT !.batch_statements = Append(@, query),
                         !.file_info = Append(@, entry(Unknown))]

RECURSIVE validate_files(_, _, _, _)
validate_files(acc, layout, files, prefix) ==
    IF files = <<>> THEN acc
    ELSE validate_files(validate_file(acc, layout, Head(files), prefix),
                        layout, Tail(files), prefix)

\* the collection loops of execute_schema_files (ddl_automation.py 74-126)
collect_schema_files(layout, prefix) ==
    validate_files([batch_statements |-> <<>>, file_info |-> <<>>,
                    schema_mismatch_found |-> FALSE],
                   layout, discovered(layout, prefix), prefix)

\* the connectivity test query of the three main() functions
TestQuery ==
    <<"S","E","L","E","C","T"," ","C","U","R","R","E","N","T","_","U","S","E","R","(",")",","," ",
      "C","U","R","R","E","N","T","_","A","C","C","O","U","N","T","(",")",","," ","C","U","R","R",
      "E","N","T","_","R","E","G","I","O","N","(",")",";">>

Goodbye ==
    <<"G","o","o","d","b","y","e","!">>
SqlCompilationError ==
    <<"S","Q","L"," ","c","o","m","p","i","l","a","t","i","o","n"," ","e","r","r","o","r">>
DoesNotExist ==
    <<"d","o","e","s"," ","n","o","t"," ","e","x","i","s","t">>
DeleteSpace ==
    <<"D","E","L","E","T","E"," ">>

(***************************************************************************)
(* Configuration (configparser) and the Command Runner                     *)
(***************************************************************************)
HasKey(cfg, section, key) == section \in DOMAIN cfg /\ key \in DOMAIN cfg[section]

\* every key run_snowsql_command reads before it builds the command; a missing
\* one raises KeyError before subprocess.run is reached
RunnerKeysPresent(cfg) ==
    /\ HasKey(cfg, "snowsql", "snowsql_path")
    /\ \A k \in {"account", "user", "password", "warehouse", "database", "role"} :
          HasKey(cfg, "connection", k)

SchemaKeysPresent(cfg) ==
    \A k \in {"1st_schema", "2nd_schema", "3rd_schema"} : HasKey(cfg, "schemas", k)

Flag(c) == <<"-", c>>

\* a cmd that hands the password to the client as a trailing option
snowsql_cmd_with_password(cfg, query) ==
    << cfg["snowsql"]["snowsql_path"],
       Flag("a"), cfg["connection"]["account"],
       Flag("u"), cfg["connection"]["user"],
       Flag("w"), cfg["connection"]["warehouse"],
       Flag("d"), cfg["connection"]["database"],
       Flag("r"), cfg["connection"]["role"],
       Flag("q"), query,
       Flag("p"), cfg["connection"]["password"] >>

\* cmd of run_snowsql_command
snowsql_cmd(cfg, query) ==
    << cfg["snowsql"]["snowsql_path"],
       Flag("a"), cfg["connection"]["account"],
       Flag("u"), cfg["connection"]["user"],
       Flag("w"), cfg["connection"]["warehouse"],
       Flag("d"), cfg["connection"]["database"],
       Flag("r"), cfg["connection"]["role"],
       Flag("q"), query >>


\* the argument vector of the listing call in drop_objects_by_type
listing_cmd(cfg, query) ==
    LET output_format == <<"o","u","t","p","u","t","_","f","o","r","m","a","t","=",
                           "p","l","a","i","n">>
        friendly == <<"f","r","i","e","n","d","l","y","=","f","a","l","s","e">>
        timing == <<"t","i","m","i","n","g","=","f","a","l","s","e">>
        header == <<"h","e","a","d","e","r","=","f","a","l","s","e">>
    IN  snowsql_cmd(cfg, query) \o
        << Flag("o"), output_format, Flag("o"), friendly,
           Flag("o"), timing, Flag("o"), header >>

\* env = os.environ.copy(); env['SNOWSQL_PWD'] = password
child_env(environ, cfg) ==
    [k \in DOMAIN environ \cup {"SNOWSQL_PWD"} |->
        IF k = "SNOWSQL_PWD" THEN cfg["connection"]["password"] ELSE environ[k]]

\* one subprocess.run: who made it, what for, and what the child receives
Invocation(fn, kind, object_type, argv, env) ==
    [fn |-> fn, kind |-> kind, object_type |-> object_type,
     query |-> argv[13], argv |-> argv, env |-> env]

\* s holds sub as a substring (Python: sub in s)
Contains(s, sub) ==
    \E i \in 1..(Len(s) - Len(sub) + 1) : SubSeq(s, i, i + Len(sub) - 1) = sub

\* what the child process reports: exit code and stderr
StderrTexts == {<<>>, <<"w","a","r","n">>, SqlCompilationError,
                <<"x"," ">> \o DoesNotExist}
ProcessResults == [returncode : {0, 1}, stderr : StderrTexts]

\* return value of run_snowsql_command: ddl_automation.py 40-49 sniffs stderr,
\* autmation.py 56 and drop_automator.py 41 look at the exit code only
run_success(which, result) ==
    IF which = "ddl_automation"
    THEN LET has_errors ==
                 /\ result.stderr # <<>>
                 /\ \/ Contains(result.stderr, SqlCompilationError)
                    \/ Contains(result.stderr, DoesNotExist)
                    \/ result.returncode # 0
         IN  result.returncode = 0 /\ ~has_errors
    ELSE result.returncode = 0

(***************************************************************************)
(* autmation.py: the per-stage collection loop of execute_all_ddls         *)
(***************************************************************************)
schema_order == <<T_raw, T_stage, T_curated>>

\* the body of the inner loop for one file (autmation.py 102-108)
rewrite_file(acc, layout, f, cfg) ==
    LET query == str_strip(read_file(layout, f.folder, f.name))
        replaced == replace_schema_placeholders(query, cfg)
    IN  IF query = <<>> THEN acc
        ELSE [acc EXCEPT !.batch_statements = Append(@, replaced),
                         !.file_info = Append(@, [folder |-> f.folder, name |-> f.name,
                                                  detected_schema |-> <<>>,
                                                  query |-> replaced])]

RECURSIVE rewrite_files(_, _, _, _)
rewrite_files(acc, layout, files, cfg) ==
    IF files = <<>> THEN acc
    ELSE rewrite_files(rewrite_file(acc, layout, Head(files), cfg), layout, Tail(files), cfg)

\* the collection loops of one stage of execute_all_ddls (autmation.py 89-108)
collect_stage_files(layout, schema_key, cfg) ==
    rewrite_files([batch_statements |-> <<>>, file_info |-> <<>>,
                   schema_mismatch_found |-> FALSE],
                  layout, discovered(layout, schema_key), cfg)

(***************************************************************************)
(* Drop Orchestrator: parsing of the listing and the DROP batch            *)
(***************************************************************************)
\* s.split('\n')
RECURSIVE split_lines(_)
split_lines(s) ==
    IF \A i \in 1..Len(s) : s[i] # "\n" THEN <<s>>
    ELSE LET i == CHOOSE k \in 1..Len(s) : s[k] = "\n" /\ \A j \in 1..(k - 1) : s[j] # "\n"
         IN  <<SubSeq(s, 1, i - 1)>> \o split_lines(SubSeq(s, i + 1, Len(s)))

\* the loop body without the 'Goodbye!' test
parse_line_keeping_goodbye(names, raw_line) ==
    LET line == str_strip(raw_line)
        clean_name == str_strip(strip_chars(line, {"|", " "}))
    IN  IF /\ line # <<>>
           /\ ~startswith(line, <<"*">>)
           /\ ~startswith(line, <<"+">>)
        THEN IF clean_name # <<>> THEN Append(names, clean_name) ELSE names
        ELSE names

\* the loop body at drop_automator.py 111-116 for one line
parse_line(names, raw_line) ==
    LET line == str_strip(raw_line)
        clean_name == str_strip(strip_chars(line, {"|", " "}))
    IN  IF /\ line # <<>>
           /\ ~startswith(line, <<"*">>)
           /\ ~startswith(line, <<"+">>)
           /\ line # Goodbye
        THEN IF clean_name # <<>> THEN Append(names, clean_name) ELSE names
        ELSE names

RECURSIVE parse_lines(_, _)
parse_lines(names, lines) ==
    IF lines = <<>> THEN names
    ELSE parse_lines(parse_line(names, Head(lines)), Tail(lines))

\* object_names of drop_objects_by_type (drop_automator.py 108-116)
parse_object_names(stdout) == parse_lines(<<>>, split_lines(stdout))

\* list_query (drop_automator.py 73-84)
list_query(cfg, schema_name, object_type) ==
    LET select_from ==
            <<"\n"," "," "," "," "," "," "," "," ","S","E","L","E","C","T"," ","T","A","B","L",
              "E","_","N","A","M","E","\n"," "," "," "," "," "," "," "," ","F","R","O","M"," ">>
        views_where ==
            <<".","I","N","F","O","R","M","A","T","I","O","N","_","S","C","H","E","M","A",".",
              "V","I","E","W","S"," ","\n"," "," "," "," "," "," "," "," ","W","H","E","R","E",
              " ","T","A","B","L","E","_","S","C","H","E","M","A"," ","="," ","'">>
        views_end == <<"'",";","\n"," "," "," "," "," "," "," "," ">>
        tables_where ==
            <<".","I","N","F","O","R","M","A","T","I","O","N","_","S","C","H","E","M","A",".",
              "T","A","B","L","E","S"," ","\n"," "," "," "," "," "," "," "," ","W","H","E","R",
              "E"," ","T","A","B","L","E","_","S","C","H","E","M","A"," ","="," ","'">>
        tables_end ==
            <<"'"," ","A","N","D"," ","T","A","B","L","E","_","T","Y","P","E"," ","="," ","'",
              "B","A","S","E"," ","T","A","B","L","E","'",";","\n"," "," "," "," "," "," "," ",
              " ">>
    IN  IF object_type = "VIEW"
        THEN select_from \o cfg["connection"]["database"] \o views_where
             \o str_upper(schema_name) \o views_end
        ELSE select_from \o cfg["connection"]["database"] \o tables_where
             \o str_upper(schema_name) \o tables_end

\* one element of drop_statements (drop_automator.py 129-132)
drop_statement(schema_name, obj_name, object_type) ==
    LET drop_view == <<"D","R","O","P"," ","V","I","E","W"," ","I","F"," ",
                       "E","X","I","S","T","S"," ">>
        drop_table == <<"D","R","O","P"," ","T","A","B","L","E"," ","I","F"," ",
                        "E","X","I","S","T","S"," ">>
        cascade == <<" ","C","A","S","C","A","D","E",";">>
    IN  IF object_type = "VIEW"
        THEN drop_view \o schema_name \o <<".">> \o obj_name \o <<";">>
        ELSE drop_table \o schema_name \o <<".">> \o obj_name \o cascade

drop_statements(schema_name, names, object_type) ==
    [i \in 1..Len(names) |-> drop_statement(schema_name, names[i], object_type)]

\* batch_drop = "\n".join(drop_statements)
batch_drop(schema_name, names, object_type) ==
    str_join(<<"\n">>, drop_statements(schema_name, names, object_type))

\* tables_query of get_schema_objects (drop_automator.py 48-53)
tables_query(cfg, schema_name) ==
    LET select_from ==
            <<"\n"," "," "," "," ","S","E","L","E","C","T"," ","T","A","B","L","E","_","N","A",
              "M","E",","," ","T","A","B","L","E","_","T","Y","P","E"," ","\n"," "," "," "," ",
              "F","R","O","M"," ">>
        where ==
            <<".","I","N","F","O","R","M","A","T","I","O","N","_","S","C","H","E","M","A",".",
              "T","A","B","L","E","S"," ","\n"," "," "," "," ","W","H","E","R","E"," ","T","A",
              "B","L","E","_","S","C","H","E","M","A"," ","="," ","'">>
        order_by ==
            <<"'","\n"," "," "," "," ","O","R","D","E","R"," ","B","Y"," ","T","A","B","L","E",
              "_","T","Y","P","E",","," ","T","A","B","L","E","_","N","A","M","E",";","\n"," ",
              " "," "," ">>
    IN  select_from \o cfg["connection"]["database"] \o where
        \o str_upper(schema_name) \o order_by

\* target_schema = config['drop'].get('target_schema', '').strip()
target_schema_of(cfg) ==
    IF HasKey(cfg, "drop", "target_schema")
    THEN str_strip(cfg["drop"]["target_schema"])
    ELSE <<>>

(***************************************************************************)
(* Interactive Shell: parsing of the operator's answers                    *)
(***************************************************************************)
RECURSIVE digits_value(_, _)
digits_value(s, acc) ==
    IF s = <<>> THEN acc
    ELSE digits_value(Tail(s), 10 * acc + (Ord(Head(s)) - Ord("0")))

\* int(s): whitespace around the literal is dropped (the separators U+001C
\* to U+001F are not whitespace to int()), then an optional sign and decimal
\* digits, with single underscores allowed between digits; ok is FALSE where
\* int() raises ValueError
int_of(s) ==
    LET literal == strip_chars(s, SpaceChars \ {"U+001C", "U+001D", "U+001E", "U+001F"})
        signed == literal # <<>> /\ Head(literal) \in {"+", "-"}
        body == IF signed THEN Tail(literal) ELSE literal
        well_formed ==
            /\ body # <<>>
            /\ \A i \in 1..Len(body) : body[i] \in DigitChars \cup {"_"}
            /\ Head(body) # "_"
            /\ body[Len(body)] # "_"
            /\ \A i \in 1..(Len(body) - 1) : ~(body[i] = "_" /\ body[i + 1] = "_")
        digits == SelectSeq(body, LAMBDA c : c # "_")
    IN  IF ~well_formed
        THEN [ok |-> FALSE, value |-> 0]
        ELSE IF signed /\ Head(literal) = "-"
        THEN [ok |-> TRUE, value |-> 0 - digits_value(digits, 0)]
        ELSE [ok |-> TRUE, value |-> digits_value(digits, 0)]

(***************************************************************************)
(* The flows of the three main() functions                                 *)
(***************************************************************************)
MaxPrompts == 4
MaxDuration == 1

NotReturned == [success |-> FALSE, count |-> 0, duration |-> 0, returned |-> FALSE]
Returned(success, count, duration) ==
    [success |-> success, count |-> count, duration |-> duration, returned |-> TRUE]

fixedVars == <<script, config, ddl_files, listing_stdout, os_environ>>
resolverVars == <<sql_text, rewritten, detected>>

Asked(prompt, answer) == Append(prompts, [prompt |-> prompt, answer |-> answer])

\* where main() goes once the connectivity test has succeeded
after_connect(which) ==
    IF which = "autmation" THEN "execute_all_ddls"
    ELSE IF which = "ddl_automation" THEN "build_menu"
    ELSE "get_schema_objects"

\* main() carrying on after a failed connectivity test
after_test_ignoring_failure(which, success) == after_connect(which)

\* what main() does with the result of the connectivity test (autmation.py
\* 139-143, ddl_automation.py 185-189, drop_automator.py 204-207)
after_test(which, success) == IF success THEN after_connect(which) ELSE "returned"

\* the connectivity test of main(): autmation.py 135-143, ddl_automation.py
\* 181-189, drop_automator.py 200-207
test_connection ==
    /\ script \in {"autmation", "ddl_automation", "drop_automator"}
    /\ IF script = "drop_automator" THEN pc = "test_connection" ELSE pc = "main"
    /\ IF ~RunnerKeysPresent(config)
       THEN /\ pc' = "KeyError"
            /\ UNCHANGED <<calls, connection>>
       ELSE \E result \in ProcessResults :
              /\ calls' = Append(calls,
                     Invocation("run_snowsql_command", "test", "",
                                snowsql_cmd(config, TestQuery),
                                child_env(os_environ, config)))
              /\ connection' = IF run_success(script, result) THEN "ok" ELSE "failed"
              /\ pc' = after_test(script, run_success(script, result))
    /\ UNCHANGED <<fixedVars, resolverVars, ret, file_prefix, stage_idx, file_info,
                   prompts, views_success, object_names>>

\* cmd of test_snowsql_connection (test_snowsql_conn.py 16-30): the region
\* option is added when the optional key holds a non-empty value
test_cmd(cfg) ==
    LET region == IF "region" \in DOMAIN cfg["connection"]
                  THEN cfg["connection"]["region"] ELSE <<>>
    IN  << cfg["snowsql"]["snowsql_path"],
           Flag("a"), cfg["connection"]["account"],
           Flag("u"), cfg["connection"]["user"],
           Flag("w"), cfg["connection"]["warehouse"],
           Flag("d"), cfg["connection"]["database"],
           Flag("r"), cfg["connection"]["role"] >>
        \o (IF region # <<>> THEN << <<"-","-","r","e","g","i","o","n">>, region >> ELSE <<>>)
        \o << Flag("q"), TestQuery >>

\* test_snowsql_connection (test_snowsql_conn.py 6-41), the whole of that script
test_snowsql_connection ==
    /\ script = "test_snowsql_conn"
    /\ pc = "main"
    /\ IF ~RunnerKeysPresent(config)
       THEN /\ pc' = "KeyError"
            /\ UNCHANGED <<calls, connection, ret>>
       ELSE \E result \in ProcessResults :
              /\ calls' = Append(calls,
                     [Invocation("test_snowsql_connection", "test", "", test_cmd(config),
                                 child_env(os_environ, config))
                        EXCEPT !.query = TestQuery])
              /\ connection' = IF result.returncode = 0 THEN "ok" ELSE "failed"
              /\ ret' = Returned(result.returncode = 0, 0, 0)
              /\ pc' = "returned"
    /\ UNCHANGED <<fixedVars, resolverVars, file_prefix, stage_idx, file_info,
                   prompts, views_success, object_names>>

\* autmation.py 146 and 60-74: the keys read after the connectivity test
execute_all_ddls_enter ==
    /\ script = "autmation"
    /\ pc = "execute_all_ddls"
    /\ pc' = IF HasKey(config, "ddl", "ddl_root") /\ SchemaKeysPresent(config)
             THEN "stage_loop" ELSE "KeyError"
    /\ stage_idx' = 1
    /\ UNCHANGED <<fixedVars, resolverVars, calls, ret, file_prefix, file_info,
                   prompts, views_success, object_names, connection>>

\* an iteration that leaves the loop when its batch failed
execute_all_ddls_stage_stopping ==
    /\ script = "autmation"
    /\ pc = "stage_loop"
    /\ LET schema_key == schema_order[stage_idx]
           b == collect_stage_files(ddl_files, schema_key, config)
           batch_query == batch_query_of(b.batch_statements)
       IN  /\ file_info' = b.file_info
           /\ IF b.batch_statements = <<>>
              THEN /\ UNCHANGED calls
                   /\ ret' = Returned(FALSE, 0, 0)
              ELSE \E result \in ProcessResults :
                     /\ calls' = Append(calls,
                            Invocation("run_snowsql_command", "batch", "",
                                       snowsql_cmd(config, batch_query),
                                       child_env(os_environ, config)))
                     /\ ret' = Returned(run_success(script, result),
                                        Len(b.batch_statements), 0)
           /\ pc' = IF stage_idx = Len(schema_order)
                        \/ (b.batch_statements # <<>> /\ ~ret'.success)
                     THEN "returned" ELSE "stage_loop"
    /\ stage_idx' = stage_idx + 1
    /\ UNCHANGED <<fixedVars, resolverVars, file_prefix, prompts, views_success,
                   object_names, connection>>

\* one iteration of the loop over schema_order (autmation.py 82-129)
execute_all_ddls_stage ==
    /\ script = "autmation"
    /\ pc = "stage_loop"
    /\ LET schema_key == schema_order[stage_idx]
           b == collect_stage_files(ddl_files, schema_key, config)
           batch_query == batch_query_of(b.batch_statements)
       IN  /\ file_info' = b.file_info
           /\ IF b.batch_statements = <<>>
              THEN /\ UNCHANGED calls
                   /\ ret' = Returned(FALSE, 0, 0)
              ELSE \E result \in ProcessResults :
                     /\ calls' = Append(calls,
                            Invocation("run_snowsql_command", "batch", "",
                                       snowsql_cmd(config, batch_query),
                                       child_env(os_environ, config)))
                     /\ ret' = Returned(run_success(script, result),
                                        Len(b.batch_statements), 0)
    /\ stage_idx' = stage_idx + 1
    /\ pc' = IF stage_idx = Len(schema_order) THEN "returned" ELSE "stage_loop"
    /\ UNCHANGED <<fixedVars, resolverVars, file_prefix, prompts, views_success,
                   object_names, connection>>

\* ddl_automation.py 191-202: the keys read after the connectivity test
build_menu ==
    /\ script = "ddl_automation"
    /\ pc = "build_menu"
    /\ pc' = IF SchemaKeysPresent(config) /\ HasKey(config, "ddl", "ddl_root")
             THEN "menu" ELSE "KeyError"
    /\ UNCHANGED <<fixedVars, resolverVars, calls, ret, file_prefix, stage_idx,
                   file_info, prompts, views_success, object_names, connection>>

\* available_schemas[choice - 1]['prefix'] (ddl_automation.py 192-196, 228)
available_prefix(cfg, choice) ==
    IF choice = 1 THEN cfg["schemas"]["1st_schema"]
    ELSE IF choice = 2 THEN cfg["schemas"]["2nd_schema"]
    ELSE cfg["schemas"]["3rd_schema"]

NumSchemas == 3

MenuInputs == {<<"0">>, <<"1">>, <<" ","2"," ">>, <<"3">>, <<"4">>, <<"-","1">>, <<"x">>,
               <<"0","_","1">>}
ContinueInputs == {<<"y">>, <<" ","Y"," ">>, <<"n">>, <<>>}

\* the dispatch without the upper end of the range test
menu_choice_unbounded_above ==
    /\ script = "ddl_automation"
    /\ pc = "menu"
    /\ Len(prompts) < MaxPrompts
    /\ \E answer \in MenuInputs :
         LET choice == int_of(str_strip(answer))
             valid == choice.ok /\ choice.value >= 1
         IN  /\ prompts' = Asked("menu", answer)
             /\ pc' = IF ~choice.ok THEN "menu"
                      ELSE IF choice.value = 0 THEN "returned"
                      ELSE IF ~valid THEN "menu"
                      ELSE "execute_schema_files"
             /\ file_prefix' = IF valid THEN available_prefix(config, choice.value)
                               ELSE file_prefix
    /\ UNCHANGED <<fixedVars, resolverVars, calls, ret, stage_idx, file_info,
                   views_success, object_names, connection>>

\* the menu prompt and the dispatch on the answer (ddl_automation.py 204-228)
menu_choice ==
    /\ script = "ddl_automation"
    /\ pc = "menu"
    /\ Len(prompts) < MaxPrompts
    /\ \E answer \in MenuInputs :
         LET choice == int_of(str_strip(answer))
             valid == choice.ok /\ choice.value >= 1 /\ choice.value <= NumSchemas
         IN  /\ prompts' = Asked("menu", answer)
             /\ pc' = IF ~choice.ok THEN "menu"
                      ELSE IF choice.value = 0 THEN "returned"
                      ELSE IF ~valid THEN "menu"
                      ELSE "execute_schema_files"
             /\ file_prefix' = IF valid THEN available_prefix(config, choice.value)
                               ELSE file_prefix
    /\ UNCHANGED <<fixedVars, resolverVars, calls, ret, stage_idx, file_info,
                   views_success, object_names, connection>>

\* execute_schema_files (ddl_automation.py 66-160), called at 237-242
execute_schema_files ==
    /\ script = "ddl_automation"
    /\ pc = "execute_schema_files"
    /\ LET b == collect_schema_files(ddl_files, file_prefix)
           batch_query == batch_query_of(b.batch_statements)
       IN  /\ file_info' = b.file_info
           /\ IF b.schema_mismatch_found \/ b.batch_statements = <<>>
              THEN /\ UNCHANGED calls
                   /\ ret' = Returned(FALSE, 0, 0)
              ELSE \E result \in ProcessResults, duration \in 0..MaxDuration :
                     /\ calls' = Append(calls,
                            Invocation("run_snowsql_command", "batch", "",
                                       snowsql_cmd(config, batch_query),
                                       child_env(os_environ, config)))
                     /\ ret' = Returned(run_success(script, result),
                                        Len(b.batch_statements), duration)
    /\ pc' = "continue_prompt"
    /\ UNCHANGED <<fixedVars, resolverVars, file_prefix, stage_idx, prompts,
                   views_success, object_names, connection>>

\* "Run another execution? (y/n)" (ddl_automation.py 283-286)
continue_prompt ==
    /\ script = "ddl_automation"
    /\ pc = "continue_prompt"
    /\ \E answer \in ContinueInputs :
         /\ prompts' = Asked("continue", answer)
         /\ pc' = IF str_lower(str_strip(answer)) = <<"y">> THEN "menu" ELSE "returned"
    /\ UNCHANGED <<fixedVars, resolverVars, calls, ret, file_prefix, stage_idx,
                   file_info, views_success, object_names, connection>>

\* the [drop] section checks of main() (drop_automator.py 186-198)
drop_main_config ==
    /\ script = "drop_automator"
    /\ pc = "main"
    /\ pc' = IF "drop" \notin DOMAIN config THEN "returned"
             ELSE IF target_schema_of(config) = <<>> THEN "returned"
             ELSE "test_connection"
    /\ UNCHANGED <<fixedVars, resolverVars, calls, ret, file_prefix, stage_idx,
                   file_info, prompts, views_success, object_names, connection>>

\* get_schema_objects (drop_automator.py 43-62), called at 210; its result
\* is not looked at
get_schema_objects ==
    /\ script = "drop_automator"
    /\ pc = "get_schema_objects"
    /\ calls' = Append(calls,
           Invocation("run_snowsql_command", "show_objects", "",
                      snowsql_cmd(config, tables_query(config, target_schema_of(config))),
                      child_env(os_environ, config)))
    /\ pc' = "confirm"
    /\ UNCHANGED <<fixedVars, resolverVars, ret, file_prefix, stage_idx, file_info,
                   prompts, views_success, object_names, connection>>

\* the gate comparing against the schema name as configured, not upper-cased
confirmation_phrase_as_configured(target_schema) == DeleteSpace \o target_schema

\* the phrase the operator has to type (drop_automator.py 216-218)
confirmation_phrase(target_schema) == DeleteSpace \o str_upper(target_schema)

ConfirmInputs ==
    { DeleteSpace \o <<"R","A","W">>,
      <<"d","e","l","e","t","e"," ","r","a","w">>,
      DeleteSpace \o <<"r","a","w">>,
      DeleteSpace \o <<"R","A","W"," ">>,
      <<" ">> \o DeleteSpace \o <<"R","A","W">>,
      DeleteSpace \o <<"S","T","S","S">>,
      <<"R","A","W">>,
      <<>> }

\* the confirmation gate (drop_automator.py 212-220)
confirm ==
    /\ script = "drop_automator"
    /\ pc = "confirm"
    /\ \E confirmation \in ConfirmInputs :
         /\ prompts' = Asked("confirm", confirmation)
         /\ pc' = IF confirmation # confirmation_phrase(target_schema_of(config))
                  THEN "returned" ELSE "choice"
    /\ UNCHANGED <<fixedVars, resolverVars, calls, ret, file_prefix, stage_idx,
                   file_info, views_success, object_names, connection>>

ChoiceInputs == {<<"1">>, <<"2">>, <<"3">>, <<" ","3"," ">>, <<"4">>, <<>>}

\* "What would you like to drop?" (drop_automator.py 222-238)
choice ==
    /\ script = "drop_automator"
    /\ pc = "choice"
    /\ \E answer \in ChoiceInputs :
         /\ prompts' = Asked("choice", answer)
         /\ pc' = IF str_strip(answer) = <<"1">> THEN "drop_views_only"
                  ELSE IF str_strip(answer) = <<"2">> THEN "drop_tables_only"
                  ELSE IF str_strip(answer) = <<"3">> THEN "drop_all_views"
                  ELSE "returned"
    /\ UNCHANGED <<fixedVars, resolverVars, calls, ret, file_prefix, stage_idx,
                   file_info, views_success, object_names, connection>>

\* the object type each call site passes to drop_objects_by_type
\* (drop_automator.py 160, 167, 231, 233)
object_type_at(p) == IF p \in {"drop_views_only", "drop_all_views"} THEN "VIEW" ELSE "TABLE"

\* drop_all_objects giving up when the VIEW step fails
after_drop_step_stopping(p, success) ==
    IF p = "drop_all_views" /\ success THEN "drop_all_tables" ELSE "returned"

\* where control goes when drop_objects_by_type returns: drop_all_objects
\* (drop_automator.py 160-167) goes on to the TABLE call whatever the VIEW call
\* returned, main() (231-240) is done
after_drop_step(p, success) == IF p = "drop_all_views" THEN "drop_all_tables" ELSE "returned"

\* drop_objects_by_type (drop_automator.py 64-148) at each of its call sites;
\* from drop_all_objects (150-180) the VIEW call is followed by the TABLE call.
\* The listing child is read with text=True, so result.stdout is what the
\* child printed with its line endings translated.
drop_objects_by_type ==
    /\ script = "drop_automator"
    /\ pc \in {"drop_views_only", "drop_tables_only", "drop_all_views", "drop_all_tables"}
    /\ LET object_type == object_type_at(pc)
           schema_name == target_schema_of(config)
           listing == Invocation("subprocess.run", "list", object_type,
                          listing_cmd(config, list_query(config, schema_name, object_type)),
                          child_env(os_environ, config))
           stdout == universal_newlines(listing_stdout[object_type])
           names == parse_object_names(stdout)
           drops == drop_statements(schema_name, names, object_type)
       IN  /\ object_names' = names
           /\ IF names = <<>>
              THEN /\ calls' = Append(calls, listing)
                   /\ ret' = Returned(TRUE, 0, 0)
              ELSE \E result \in ProcessResults :
                     /\ calls' = calls \o
                           << listing,
                              Invocation("run_snowsql_command", "drop", object_type,
                                  snowsql_cmd(config, batch_drop(schema_name, names, object_type)),
                                  child_env(os_environ, config)) >>
                     /\ ret' = Returned(run_success(script, result), Len(drops), 0)
           /\ views_success' = IF pc = "drop_all_views" THEN ret'.success ELSE views_success
    /\ pc' = after_drop_step(pc, ret'.success)
    /\ UNCHANGED <<fixedVars, resolverVars, file_prefix, stage_idx, file_info, prompts,
                   connection>>

(***************************************************************************)
(* Configurations, layouts and listings the scripts are started on         *)
(***************************************************************************)
N_RAW_DB == <<"R","A","W","_","D","B">>
N_STAGE_DB == <<"S","T","A","G","E","_","D","B">>
N_CURATED_DB == <<"C","U","R","A","T","E","D","_","D","B">>

SchemasSection(first, second, third) ==
    [k \in {"1st_schema", "2nd_schema", "3rd_schema"} |->
        IF k = "1st_schema" THEN first ELSE IF k = "2nd_schema" THEN second ELSE third]

\* a config.ini with every section and key the scripts read
FullConfig(schemas, target) ==
    [ connection |-> [account |-> <<"a","c">>, user |-> <<"m","e">>, password |-> <<"p","w">>,
                      warehouse |-> <<"w","h">>, database |-> <<"D","B">>, role |-> <<"r","o">>],
      snowsql |-> [snowsql_path |-> <<"s","n","o","w","s","q","l">>],
      schemas |-> schemas,
      ddl |-> [ddl_root |-> <<"d","d","l">>],
      drop |-> [target_schema |-> target] ]

WithoutSection(cfg, section) == [s \in DOMAIN cfg \ {section} |-> cfg[s]]
WithoutKey(cfg, section, key) ==
    [s \in DOMAIN cfg |->
        IF s = section THEN [k \in DOMAIN cfg[s] \ {key} |-> cfg[s][k]] ELSE cfg[s]]

\* cfg itself and cfg with one required section or key left out
ConfigVariants(cfg) ==
    {cfg}
    \cup {WithoutSection(cfg, s) : s \in DOMAIN cfg}
    \cup {WithoutKey(cfg, "connection", "password"),
          WithoutKey(cfg, "snowsql", "snowsql_path"),
          WithoutKey(cfg, "schemas", "3rd_schema"),
          WithoutKey(cfg, "ddl", "ddl_root"),
          WithoutKey(cfg, "drop", "target_schema")}

IdentitySchemas == SchemasSection(T_raw, T_stage, T_curated)
DbSchemas == SchemasSection(N_RAW_DB, N_STAGE_DB, N_CURATED_DB)

OsEnviron == [PATH |-> <<"/","b","i","n">>]

\* file and folder names
D_a == <<"a">>
D_a_b == <<"a",".","b">>
F_raw_t == <<"r","a","w",".","t",".","s","q","l">>
F_raw_v == <<"r","a","w",".","v",".","s","q","l">>
F_stage_t == <<"s","t","a","g","e",".","t",".","s","q","l">>
F_rawx_t == <<"r","a","w","x",".","t",".","s","q","l">>

\* file contents as stored: whitespace only; a table in schema raw, padded
\* with whitespace; a view in schema Stage in lower-case SQL, ending with a
\* semicolon; two statements naming no schema, with carriage return + line
\* feed line ends
C_blank == <<" ","\f","\r","\n">>
C_raw_table == <<" ","C","R","E","A","T","E"," ","T","A","B","L","E"," ","r","a","w",".","t","\n">>
C_stage_view == <<"c","r","e","a","t","e"," ","v","i","e","w"," ","S","t","a","g","e",".","v",";">>
C_two_statements == <<"A",";","\r","\n","\r","\n","B">>

DdlFile(folder, name, text) == [folder |-> folder, name |-> name, text |-> text]

\* listing outputs
L_rule == <<"+","-","-","-","+">>
L_customers == <<"|"," ","C","U","S","T","O","M","E","R","S"," ","|">>
L_orders == <<"|"," ","O","R","D","E","R","S"," ","|">>
L_star == <<"*"," ","x">>
L_pipes == <<"|"," ","|">>
L_bare == <<"T","1">>
L_tabbed == <<"|","\t","V","1","\t","|">>
L_goodbye_padded == <<" ","G","o","o","d","b","y","e","!","\r">>
L_cr_pair == <<"|"," ","A"," ","|","\r","|"," ","B"," ","|">>
L_wide == <<"U+00A0","|","\f","É","U+001C"," ","|">>


MainLayouts ==
    { {},
      { DdlFile(D_a, F_raw_t, C_raw_table), DdlFile(D_a, F_stage_t, C_stage_view),
        DdlFile(D_a_b, F_raw_t, C_two_statements) },
      { DdlFile(D_a, F_raw_t, C_stage_view), DdlFile(D_a, F_raw_v, C_raw_table) } }

EmptyListing == [VIEW |-> <<>>, TABLE |-> <<>>]


MainListings ==
    [{"VIEW", "TABLE"} ->
        { <<>>, str_join(<<"\n">>, <<L_rule, L_customers, L_orders, Goodbye>>) }]


MainConfigs(which) ==
    IF which = "test_snowsql_conn"
    THEN LET cfg == FullConfig(IdentitySchemas, T_raw)
             with_region(r) ==
                 [cfg EXCEPT !["connection"] =
                     [k \in DOMAIN cfg["connection"] \cup {"region"} |->
                         IF k = "region" THEN r ELSE cfg["connection"][k]]]
         IN  ConfigVariants(cfg) \cup {with_region(<<"e","u">>), with_region(<<>>)}
    ELSE IF which = "drop_automator"
    THEN UNION {ConfigVariants(FullConfig(IdentitySchemas, t)) :
                    t \in {T_raw, <<"S","t","ß">>, <<>>}}
    ELSE UNION {ConfigVariants(FullConfig(s, T_raw)) : s \in {IdentitySchemas, DbSchemas}}

\* what no flow has touched yet
Untouched ==
    /\ calls = <<>>
    /\ ret = NotReturned
    /\ file_info = <<>>
    /\ prompts = <<>>
    /\ views_success = FALSE
    /\ object_names = <<>>
    /\ os_environ = OsEnviron
    /\ connection = "untested"

ResolverIdle == sql_text = <<>> /\ rewritten = <<>> /\ detected = <<>>

\* a script has just been started: main() is about to run
Init ==
    /\ script \in {"autmation", "ddl_automation", "drop_automator", "test_snowsql_conn"}
    /\ pc = "main"
    /\ config \in MainConfigs(script)
    /\ ddl_files \in (IF script \in {"autmation", "ddl_automation"} THEN MainLayouts ELSE {{}})
    /\ listing_stdout \in (IF script = "drop_automator" THEN MainListings ELSE {EmptyListing})
    /\ file_prefix = <<>>
    /\ stage_idx = 0
    /\ Untouched
    /\ ResolverIdle

Next ==
    \/ test_connection
    \/ test_snowsql_connection
    \/ execute_all_ddls_enter
    \/ execute_all_ddls_stage
    \/ build_menu
    \/ menu_choice
    \/ execute_schema_files
    \/ continue_prompt
    \/ drop_main_config
    \/ get_schema_objects
    \/ confirm
    \/ choice
    \/ drop_objects_by_type

Spec == Init /\ [][Next]_vars

(***************************************************************************)
(* Properties of the main() flows, checked under Spec                      *)
(***************************************************************************)
IsDropWork(call) == call.kind \in {"list", "drop"}

\* the operator typed exactly 'DELETE ' followed by the upper-cased target
TypedExactPhrase ==
    \E j \in 1..Len(prompts) :
        /\ prompts[j].prompt = "confirm"
        /\ prompts[j].answer =
              <<"D","E","L","E","T","E"," ">> \o str_upper(target_schema_of(config))

\* C2: in the drop script no listing-for-drop and no DROP batch is issued, and
\* no drop step is entered, unless the answer to the confirmation prompt is
\* exactly 'DELETE <TARGET SCHEMA IN UPPER CASE>'; any other answer ends the
\* run at once.
C2_ConfirmationGate ==
    script = "drop_automator" =>
        /\ ~TypedExactPhrase =>
              /\ \A i \in 1..Len(calls) : ~IsDropWork(calls[i])
              /\ pc \notin {"choice", "drop_views_only", "drop_tables_only",
                            "drop_all_views", "drop_all_tables"}
        /\ (\E j \in 1..Len(prompts) : prompts[j].prompt = "confirm") /\ ~TypedExactPhrase
              => pc = "returned"

\* target schema raw, the operator typed 'delete raw': the run was cancelled
C2_Witness ==
    /\ script = "drop_automator"
    /\ target_schema_of(config) = <<"r","a","w">>
    /\ prompts = <<[prompt |-> "confirm",
                    answer |-> <<"d","e","l","e","t","e"," ","r","a","w">>]>>
    /\ pc = "returned"
    /\ Len(calls) = 2

\* the operator chose 3, ALL OBJECTS, so drop_all_objects runs
DropAllChosen ==
    /\ script = "drop_automator"
    /\ \E j \in 1..Len(prompts) :
          prompts[j].prompt = "choice" /\ str_strip(prompts[j].answer) = <<"3">>

CallsOfType(kind, object_type) ==
    {i \in 1..Len(calls) : calls[i].kind = kind /\ calls[i].object_type = object_type}

\* C3: in drop_all_objects every VIEW call (listing, DROP VIEW batch) comes
\* before every TABLE call, the VIEW listing is made first, and once the flow
\* has returned the TABLE listing has been made exactly once, whether the VIEW
\* step returned success or failure.
C3_ViewsThenTablesAlways ==
    DropAllChosen =>
        /\ \A i \in 1..Len(calls), j \in 1..Len(calls) :
              /\ IsDropWork(calls[i]) /\ calls[i].object_type = "VIEW"
              /\ IsDropWork(calls[j]) /\ calls[j].object_type = "TABLE"
              => i < j
        /\ CallsOfType("list", "TABLE") # {} => CallsOfType("list", "VIEW") # {}
        /\ \A i \in CallsOfType("drop", "TABLE") : \E j \in CallsOfType("list", "TABLE") : j < i
        /\ pc = "returned" =>
              /\ Cardinality(CallsOfType("list", "VIEW")) = 1
              /\ Cardinality(CallsOfType("list", "TABLE")) = 1

\* the DROP VIEW batch failed and the TABLE step was made all the same
C3_Witness ==
    /\ DropAllChosen
    /\ pc = "returned"
    /\ CallsOfType("drop", "VIEW") # {}
    /\ ~views_success
    /\ Cardinality(CallsOfType("list", "TABLE")) = 1

\* every section and key the running script needs is in the configuration
RequiredConfigPresent ==
    /\ RunnerKeysPresent(config)
    /\ script \in {"autmation", "ddl_automation"} =>
          SchemaKeysPresent(config) /\ HasKey(config, "ddl", "ddl_root")
    /\ script = "drop_automator" => target_schema_of(config) # <<>>

\* C4: when a required configuration section or key is absent, the run makes
\* no Command Runner invocation at all, the connectivity test included.
C4_ConfigMissingMakesNoCall == ~RequiredConfigPresent => calls = <<>>

\* C5: once the connectivity test has returned failure the run is over: the
\* test is the only invocation ever made and no prompt is ever shown.
C5_ConnectionFailureEndsRun ==
    connection = "failed" =>
        /\ pc = "returned"
        /\ Len(calls) = 1
        /\ calls[1].kind = "test"
        /\ prompts = <<>>

\* the interactive ddl_automation script whose connectivity test failed
C5_Witness ==
    /\ script = "ddl_automation"
    /\ RequiredConfigPresent
    /\ connection = "failed"
    /\ pc = "returned"

(***************************************************************************)
(* SpecBatch: the batch-building functions on every small directory layout *)
(***************************************************************************)
MaxFiles == 3

BatchPaths ==
    { <<D_a, F_raw_t>>, <<D_a, F_raw_v>>, <<D_a, F_stage_t>>,
      <<D_a_b, F_raw_t>>, <<D_a_b, F_stage_t>>, <<D_a_b, F_rawx_t>> }

\* every layout of at most MaxFiles files
BatchLayouts ==
    UNION { { {DdlFile(p[1], p[2], f[p]) : p \in P} :
                f \in [P -> {C_blank, C_raw_table, C_stage_view, C_two_statements}] } :
            P \in {Q \in SUBSET BatchPaths : Cardinality(Q) <= MaxFiles} }

\* execute_schema_files is about to be called for a prefix, or execute_all_ddls
\* is about to enter its stage loop
InitBatch ==
    /\ script \in {"ddl_automation", "autmation"}
    /\ pc = (IF script = "ddl_automation" THEN "execute_schema_files" ELSE "stage_loop")
    /\ config = FullConfig(DbSchemas, T_raw)
    /\ ddl_files \in BatchLayouts
    /\ listing_stdout = EmptyListing
    /\ file_prefix \in (IF script = "ddl_automation" THEN {T_raw, T_stage, T_curated} ELSE {<<>>})
    /\ stage_idx = (IF script = "ddl_automation" THEN 0 ELSE 1)
    /\ calls = <<>>
    /\ ret = NotReturned
    /\ file_info = <<>>
    /\ prompts = <<>>
    /\ views_success = FALSE
    /\ object_names = <<>>
    /\ os_environ = OsEnviron
    /\ connection = "ok"
    /\ ResolverIdle

NextBatch ==
    \/ execute_schema_files
    \/ execute_all_ddls_stage

SpecBatch == InitBatch /\ [][NextBatch]_vars

\* the name reads <prefix>.<anything>.sql
NameHasPrefix(name, prefix) ==
    \E n \in 0..Len(name) :
        /\ Len(name) = Len(prefix) + 1 + n + 4
        /\ name = prefix \o <<".">> \o SubSeq(name, Len(prefix) + 2, Len(prefix) + 1 + n)
                  \o <<".","s","q","l">>

\* the prefix whose batch the last step built
LastPrefix ==
    IF script = "ddl_automation" THEN file_prefix
    ELSE IF stage_idx = 2 THEN <<"r","a","w">>
    ELSE IF stage_idx = 3 THEN <<"s","t","a","g","e">>
    ELSE <<"c","u","r","a","t","e","d">>

\* the last step sent a batch, and file_info lists the files in it
BatchSent == ret.returned /\ file_info # <<>> /\ calls # <<>>

LastQuery == calls[Len(calls)].query

\* the stored text with every line end (carriage return + line feed, lone
\* carriage return, line feed) written as a line feed
AsRead(text) ==
    LET kept == {i \in 1..Len(text) :
                    ~(text[i] = "\r" /\ i < Len(text) /\ text[i + 1] = "\n")}
        nth(k) == CHOOSE i \in kept : Cardinality({j \in kept : j < i}) = k - 1
    IN  [k \in 1..Cardinality(kept) |->
            IF text[nth(k)] = "\r" THEN "\n" ELSE text[nth(k)]]

\* the files of the layout that belong to the batch of the prefix
BatchFilesOf(prefix) ==
    {f \in ddl_files : NameHasPrefix(f.name, prefix) /\ str_strip(AsRead(f.text)) # <<>>}

\* some non-empty file of the prefix declares another schema than the prefix
HasMismatch(prefix) ==
    \E f \in BatchFilesOf(prefix) :
        LET found == extract_schema_from_file(str_strip(AsRead(f.text)))
        IN  found # <<>> /\ str_lower(found) # str_lower(prefix)

\* C1: when a non-empty file of the prefix declares a schema other than the
\* prefix, execute_schema_files invokes no command and returns (False, 0, 0).
C1_MismatchSendsNothing ==
    script = "ddl_automation" /\ ret.returned /\ HasMismatch(file_prefix) =>
        /\ calls = <<>>
        /\ ~ret.success /\ ret.count = 0 /\ ret.duration = 0

\* a file passed validation next to the one that failed it
C1_Witness ==
    /\ script = "ddl_automation"
    /\ ret.returned
    /\ HasMismatch(file_prefix)
    /\ file_info # <<>>
    /\ calls = <<>>

\* the number of places where sub starts in s
Occurrences(s, sub) ==
    Cardinality({i \in 1..(Len(s) - Len(sub) + 1) : SubSeq(s, i, i + Len(sub) - 1) = sub})

SingleTrailingSemicolon(s) ==
    /\ s # <<>>
    /\ s[Len(s)] = ";"
    /\ Len(s) >= 2 => s[Len(s) - 1] # ";"

\* texts[1] ;\n\n texts[2] ;\n\n ... texts[N] ;
RECURSIVE Terminated(_)
Terminated(texts) ==
    IF Len(texts) = 1 THEN texts[1] \o <<";">>
    ELSE texts[1] \o <<";", "\n", "\n">> \o Terminated(Tail(texts))

IncludedTexts == [k \in 1..Len(file_info) |-> file_info[k].query]

\* C8 as stated: whatever the N included texts are, the batch holds exactly
\* N-1 separators ';\n\n' and ends with a single ';', and the count is N.
C8_Original ==
    BatchSent =>
        /\ Occurrences(LastQuery, <<";", "\n", "\n">>) = Len(file_info) - 1
        /\ SingleTrailingSemicolon(LastQuery)
        /\ ret.count = Len(file_info)

\* C8 amended: the batch is the N included texts joined by ';\n\n' with one
\* ';' appended, and the count is N; when no included text holds ';\n\n' and
\* the last one does not end with ';', the batch holds exactly N-1 separators
\* and ends with a single ';'.
C8_BatchShape ==
    BatchSent =>
        /\ LastQuery = Terminated(IncludedTexts)
        /\ ret.count = Len(file_info)
        /\ /\ \A k \in 1..Len(file_info) :
                 Occurrences(file_info[k].query, <<";", "\n", "\n">>) = 0
           /\ file_info[Len(file_info)].query[Len(file_info[Len(file_info)].query)] # ";"
           => /\ Occurrences(LastQuery, <<";", "\n", "\n">>) = Len(file_info) - 1
              /\ SingleTrailingSemicolon(LastQuery)

\* three files without semicolons were batched
C8_Witness ==
    /\ BatchSent
    /\ Len(file_info) = 3
    /\ \A k \in 1..3 : ";" \notin Range(file_info[k].query)
    /\ Occurrences(LastQuery, <<";", "\n", "\n">>) = 2

\* the text a file contributes to its batch
Contribution(f) ==
    IF script = "autmation"
    THEN replace_schema_placeholders(str_strip(AsRead(f.text)), config)
    ELSE str_strip(AsRead(f.text))

\* C10: a batch holds only files named <prefix>.<name>.sql, holds every such
\* file whose trimmed content is non-empty, each once and with its own
\* content, in increasing (folder name, file name) order, and the query sent
\* is those contents in that order.
C10_BatchMembershipAndOrder ==
    BatchSent =>
        /\ \A k \in 1..Len(file_info) :
              /\ NameHasPrefix(file_info[k].name, LastPrefix)
              /\ \E f \in ddl_files :
                    /\ f.folder = file_info[k].folder
                    /\ f.name = file_info[k].name
                    /\ file_info[k].query = Contribution(f)
        /\ \A f \in BatchFilesOf(LastPrefix) :
              \E k \in 1..Len(file_info) :
                  file_info[k].folder = f.folder /\ file_info[k].name = f.name
        /\ \A i \in 1..Len(file_info), j \in 1..Len(file_info) :
              i < j =>
                 \/ str_less(file_info[i].folder, file_info[j].folder)
                 \/ /\ file_info[i].folder = file_info[j].folder
                    /\ str_less(file_info[i].name, file_info[j].name)
        /\ LastQuery = Terminated(IncludedTexts)

\* a batch of two folders' files, built next to a file of another prefix
C10_Witness ==
    /\ BatchSent
    /\ Len(file_info) = 2
    /\ file_info[1].folder # file_info[2].folder
    /\ \E f \in ddl_files : ~NameHasPrefix(f.name, LastPrefix) /\ str_strip(f.text) # <<>>

(***************************************************************************)
(* SpecResolver: replace_schema_placeholders on small texts and mappings   *)
(***************************************************************************)
MaxChunks == 3
MaxPasses == 2

ExampleSql ==
    <<"C","R","E","A","T","E"," ","T","A","B","L","E"," ","r","a","w",".",
      "c","u","s","t","o","m","e","r","s","(","i","d"," ","I","N","T",")",";">>
ExampleRewritten ==
    <<"C","R","E","A","T","E"," ","T","A","B","L","E"," ","R","A","W","_","D","B",".",
      "c","u","s","t","o","m","e","r","s","(","i","d"," ","I","N","T",")",";">>

\* every concatenation of at most MaxChunks chunks, and the spec's example
ResolverTexts ==
    LET chunks == {T_raw \o <<".">>, T_stage \o <<".">>, T_curated \o <<".">>,
                   T_raw, <<"x">>, <<"é">>, <<" ">>}
    IN  {Concat(cs) : cs \in SeqsUpTo(chunks, MaxChunks)} \cup {ExampleSql}

\* mappings: plain names, a token mapped to itself, to another token's name,
\* to a database-qualified name and to a name that ends with the token
ResolverSchemas ==
    { SchemasSection(first, second, third) :
        first \in {N_RAW_DB, T_raw, T_stage, <<"a",".","r","a","w">>, <<"x","_","r","a","w">>,
                  <<"é","r","a","w">>},
        second \in {N_STAGE_DB, T_stage, T_curated, T_raw},
        third \in {N_CURATED_DB, T_curated, T_raw} }

InitResolver ==
    /\ script = "autmation"
    /\ pc = "resolver"
    /\ config \in {FullConfig(s, T_raw) : s \in ResolverSchemas}
    /\ sql_text \in ResolverTexts
    /\ rewritten = <<>>
    /\ detected = <<>>
    /\ ddl_files = {}
    /\ listing_stdout = EmptyListing
    /\ file_prefix = <<>>
    /\ stage_idx = 0
    /\ Untouched

\* one more pass of the resolver over its own output
resolve ==
    /\ pc = "resolver"
    /\ Len(rewritten) < MaxPasses
    /\ rewritten' = Append(rewritten,
           replace_schema_placeholders(
               IF rewritten = <<>> THEN sql_text ELSE rewritten[Len(rewritten)], config))
    /\ UNCHANGED <<fixedVars, pc, calls, ret, file_prefix, stage_idx, file_info, prompts,
                   views_success, object_names, connection, sql_text, detected>>

SpecResolver == InitResolver /\ [][resolve]_vars

\* token followed by '.' stands in s at i, not preceded by a word character
IsPlaceholderAt(s, i, token) ==
    /\ i + Len(token) <= Len(s)
    /\ \A k \in 1..Len(token) : s[i + k - 1] = token[k]
    /\ s[i + Len(token)] = "."
    /\ i > 1 => s[i - 1] \notin WordChars

ActualOf(cfg, token) ==
    IF token = <<"r","a","w">> THEN cfg["schemas"]["1st_schema"]
    ELSE IF token = <<"s","t","a","g","e">> THEN cfg["schemas"]["2nd_schema"]
    ELSE cfg["schemas"]["3rd_schema"]

Tokens == {<<"r","a","w">>, <<"s","t","a","g","e">>, <<"c","u","r","a","t","e","d">>}

\* s with every placeholder of the input replaced by its own token's actual
\* name at once, everything else copied
RECURSIVE AllAtOnce(_, _, _)
AllAtOnce(s, i, cfg) ==
    IF i > Len(s) THEN <<>>
    ELSE IF \E token \in Tokens : IsPlaceholderAt(s, i, token)
    THEN LET token == CHOOSE tk \in Tokens : IsPlaceholderAt(s, i, tk)
         IN  ActualOf(cfg, token) \o <<".">> \o AllAtOnce(s, i + Len(token) + 1, cfg)
    ELSE <<s[i]>> \o AllAtOnce(s, i + 1, cfg)

\* C6 as stated: for every text and every mapping one pass equals the
\* replacement of every placeholder of the input by its own actual name.
C6_Original ==
    Len(rewritten) >= 1 => rewritten[1] = AllAtOnce(sql_text, 1, config)

HoldsPlaceholder(s, token) == \E i \in 1..Len(s) : IsPlaceholderAt(s, i, token)

\* no replacement text '<actual>.' holds a placeholder of a token that is
\* processed after it
NoChaining(cfg) ==
    /\ ~HoldsPlaceholder(ActualOf(cfg, <<"r","a","w">>) \o <<".">>, <<"s","t","a","g","e">>)
    /\ ~HoldsPlaceholder(ActualOf(cfg, <<"r","a","w">>) \o <<".">>, <<"c","u","r","a","t","e","d">>)
    /\ ~HoldsPlaceholder(ActualOf(cfg, <<"s","t","a","g","e">>) \o <<".">>,
                         <<"c","u","r","a","t","e","d">>)

\* C6 amended: one pass equals the replacement of every placeholder of the
\* input by its own token's actual name, nothing else changed, for every
\* mapping in which the replacement text of raw holds no 'stage.' or
\* 'curated.' placeholder and that of stage holds no 'curated.' placeholder.
C6_ReplacesEveryPlaceholder ==
    Len(rewritten) >= 1 /\ NoChaining(config) =>
        rewritten[1] = AllAtOnce(sql_text, 1, config)

\* the spec's example: raw -> RAW_DB on CREATE TABLE raw.customers(id INT);
C6_Witness ==
    /\ sql_text = ExampleSql
    /\ ActualOf(config, <<"r","a","w">>) = <<"R","A","W","_","D","B">>
    /\ Len(rewritten) >= 1
    /\ rewritten[1] = ExampleRewritten

\* no configured actual name equals another token's name
NoCollision(cfg) ==
    \A token \in Tokens : ActualOf(cfg, token) \notin Tokens \ {token}

\* C7 as stated: without such a collision the second pass changes nothing.
C7_Original ==
    Len(rewritten) >= 2 /\ NoCollision(config) => rewritten[2] = rewritten[1]

OnlyWordChars(cfg) ==
    \A token \in Tokens : Range(ActualOf(cfg, token)) \subseteq WordChars

\* C7 amended: when every configured actual name is made of word characters
\* only and none equals another token's name, every further pass returns what
\* the first pass returned.
C7_SecondPassIsNoOp ==
    NoCollision(config) /\ OnlyWordChars(config) =>
        \A k \in 2..Len(rewritten) : rewritten[k] = rewritten[1]

\* a second pass over a text the first pass did change
C7_Witness ==
    /\ NoCollision(config)
    /\ OnlyWordChars(config)
    /\ Len(rewritten) >= 2
    /\ rewritten[1] # sql_text
    /\ rewritten[2] = rewritten[1]

(***************************************************************************)
(* SpecParse: drop_objects_by_type on every small listing output           *)
(***************************************************************************)
MaxLines == 3

ParseLines == {L_rule, L_customers, L_orders, Goodbye, <<>>, L_star, L_pipes, L_bare,
               L_tabbed, L_goodbye_padded, L_cr_pair, L_wide}

\* every output of at most MaxLines lines, and the four-line listing
\* '+---+', '| CUSTOMERS |', '| ORDERS |', 'Goodbye!'
ParseOutputs ==
    {str_join(<<"\n">>, ls) : ls \in SeqsUpTo(ParseLines, MaxLines)}
    \cup {str_join(<<"\n">>, <<L_rule, L_customers, L_orders, Goodbye>>)}

\* main() is about to call drop_objects_by_type for one object type
InitParse ==
    /\ script = "drop_automator"
    /\ pc \in {"drop_views_only", "drop_tables_only"}
    /\ config = FullConfig(IdentitySchemas, T_raw)
    /\ \E out \in ParseOutputs : listing_stdout = [VIEW |-> out, TABLE |-> out]
    /\ ddl_files = {}
    /\ file_prefix = <<>>
    /\ stage_idx = 0
    /\ calls = <<>>
    /\ ret = NotReturned
    /\ file_info = <<>>
    /\ prompts = <<>>
    /\ views_success = FALSE
    /\ object_names = <<>>
    /\ os_environ = OsEnviron
    /\ connection = "ok"
    /\ ResolverIdle

SpecParse == InitParse /\ [][drop_objects_by_type]_vars

\* s without its leading and trailing characters that are in chars
Core(s, chars) ==
    LET keep == {i \in 1..Len(s) : s[i] \notin chars}
    IN  IF keep = {} THEN <<>>
        ELSE SubSeq(s, CHOOSE i \in keep : \A j \in keep : i <= j,
                       CHOOSE i \in keep : \A j \in keep : j <= i)

\* the lines of s: the stretches between consecutive line feeds
LinesOf(s) ==
    LET nl == {i \in 1..Len(s) : s[i] = "\n"}
        nth(k) == CHOOSE i \in nl : Cardinality({j \in nl : j < i}) = k - 1
        from(k) == IF k = 1 THEN 1 ELSE nth(k - 1) + 1
        to(k) == IF k = Cardinality(nl) + 1 THEN Len(s) ELSE nth(k) - 1
    IN  [k \in 1..(Cardinality(nl) + 1) |-> SubSeq(s, from(k), to(k))]

\* the lines of the output: the stretches between line ends, a line end being
\* a line feed or a carriage return (the empty stretch inside a carriage
\* return + line feed pair is a blank line)
OutputLines(s) ==
    LET ends == {i \in 1..Len(s) : s[i] \in {"\n", "\r"}}
        nth(k) == CHOOSE i \in ends : Cardinality({j \in ends : j < i}) = k - 1
        from(k) == IF k = 1 THEN 1 ELSE nth(k - 1) + 1
        to(k) == IF k = Cardinality(ends) + 1 THEN Len(s) ELSE nth(k) - 1
    IN  [k \in 1..(Cardinality(ends) + 1) |-> SubSeq(s, from(k), to(k))]

Trimmed(line) == Core(line, SpaceChars)
NameIn(line) == Core(Core(Trimmed(line), {"|", " "}), SpaceChars)

\* the line is neither blank, nor a '*' or '+' line, nor 'Goodbye!', and
\* something is left of it once the padding is stripped
YieldsName(line) ==
    /\ Trimmed(line) # <<>>
    /\ Trimmed(line)[1] \notin {"*", "+"}
    /\ Trimmed(line) # <<"G","o","o","d","b","y","e","!">>
    /\ NameIn(line) # <<>>

ExpectedNames(stdout) ==
    LET kept == SelectSeq(OutputLines(stdout), YieldsName)
    IN  [k \in 1..Len(kept) |-> NameIn(kept[k])]

ParsedType == IF calls # <<>> THEN calls[1].object_type ELSE ""

ExpectedDrop(name) ==
    IF ParsedType = "VIEW"
    THEN <<"D","R","O","P"," ","V","I","E","W"," ","I","F"," ","E","X","I","S","T","S"," ">>
         \o target_schema_of(config) \o <<".">> \o name \o <<";">>
    ELSE <<"D","R","O","P"," ","T","A","B","L","E"," ","I","F"," ","E","X","I","S","T","S"," ">>
         \o target_schema_of(config) \o <<".">> \o name
         \o <<" ","C","A","S","C","A","D","E",";">>

\* C9: the parsed object list is, in output order, the stripped names of the
\* lines that are non-blank, do not start with '*' or '+' and are not
\* 'Goodbye!', and the DROP batch holds one statement per parsed name.
C9_ParsedNamesAndDrops ==
    script = "drop_automator" /\ ret.returned =>
        /\ object_names = ExpectedNames(listing_stdout[ParsedType])
        /\ object_names = <<>> => Len(calls) = 1
        /\ object_names # <<>> =>
              /\ Len(calls) = 2
              /\ calls[2].kind = "drop"
              /\ LinesOf(calls[2].query) =
                    [k \in 1..Len(object_names) |-> ExpectedDrop(object_names[k])]

\* the spec's example listing
C9_Witness ==
    /\ ret.returned
    /\ listing_stdout["VIEW"] =
          <<"+","-","-","-","+","\n",
            "|"," ","C","U","S","T","O","M","E","R","S"," ","|","\n",
            "|"," ","O","R","D","E","R","S"," ","|","\n",
            "G","o","o","d","b","y","e","!">>
    /\ object_names = << <<"C","U","S","T","O","M","E","R","S">>, <<"O","R","D","E","R","S">> >>
    /\ Len(calls) = 2

(***************************************************************************)
(* SpecExtract: extract_schema_from_file on small file texts               *)
(***************************************************************************)
MaxPieces == 4

\* every concatenation of at most MaxPieces pieces: the two statement heads
\* with and without OR REPLACE and in mixed case, a head whose optional group
\* is cut short, qualified names (one of them a capital letter outside
\* ASCII), an unqualified name, a blank and a form feed
ExtractTexts ==
    LET pieces ==
            { <<"C","R","E","A","T","E"," ","T","A","B","L","E"," ">>,
              <<"c","r","e","a","t","e"," ","v","i","e","w"," ">>,
              <<"C","R","E","A","T","E"," ","O","R"," ","R","E","P","L","A","C","E"," ",
                "T","A","B","L","E"," ">>,
              <<"C","r","e","a","t","e"," "," ","o","r","\n","r","e","p","l","a","c","e"," ",
                "V","i","e","w","\t">>,
              <<"C","R","E","A","T","E"," ","O","R"," ">>,
              <<"a",".","t">>,
              <<"B","1",".","v">>,
              <<"É",".","v">>,
              <<"t">>,
              <<" ">>,
              <<"\f">> }
    IN  {Concat(ps) : ps \in SeqsUpTo(pieces, MaxPieces)}

\* the Validator is about to be handed the text of one file
InitExtract ==
    /\ script = "ddl_automation"
    /\ pc = "extract_schema_from_file"
    /\ config = FullConfig(IdentitySchemas, T_raw)
    /\ sql_text \in ExtractTexts
    /\ rewritten = <<>>
    /\ detected = <<>>
    /\ ddl_files = {}
    /\ listing_stdout = EmptyListing
    /\ file_prefix = <<>>
    /\ stage_idx = 0
    /\ Untouched

\* detected_schema = extract_schema_from_file(query) (ddl_automation.py 97)
extract_schema ==
    /\ pc = "extract_schema_from_file"
    /\ detected = <<>>
    /\ detected' = <<extract_schema_from_file(sql_text)>>
    /\ UNCHANGED <<fixedVars, pc, calls, ret, file_prefix, stage_idx, file_info, prompts,
                   views_success, object_names, connection, sql_text, rewritten>>

SpecExtract == InitExtract /\ [][extract_schema]_vars

\* the positions of s where a statement head of either form matches
HeadPositions(s) ==
    {i \in 1..Len(s) : \/ create_at(s, i, <<"T","A","B","L","E">>) # <<>>
                       \/ create_at(s, i, <<"V","I","E","W">>) # <<>>}

\* the identifier captured by the textually earliest head of either form,
\* lower-cased; the empty text when neither form occurs
EarliestSchema(s) ==
    IF HeadPositions(s) = {} THEN <<>>
    ELSE LET i == CHOOSE p \in HeadPositions(s) : \A q \in HeadPositions(s) : p <= q
             as_table == create_at(s, i, <<"T","A","B","L","E">>)
         IN  str_lower(IF as_table # <<>> THEN as_table
                       ELSE create_at(s, i, <<"V","I","E","W">>))

\* C11: extract_schema_from_file returns the lower-cased identifier captured
\* by the textually earliest match of CREATE [OR REPLACE] TABLE <identifier>.
\* or CREATE [OR REPLACE] VIEW <identifier>., and no schema only when neither
\* form occurs.
C11_EarliestMatchWins ==
    pc = "extract_schema_from_file" /\ detected # <<>> =>
        detected[1] = EarliestSchema(sql_text)

(***************************************************************************)
(* The interactive shell of ddl_automation                                 *)
(***************************************************************************)
InShell == script = "ddl_automation" /\ pc \in {"menu", "execute_schema_files", "continue_prompt"}

\* the prompt shown and answered in this step, if any
JustAsked(prompt) ==
    /\ Len(prompts') = Len(prompts) + 1
    /\ prompts'[Len(prompts')].prompt = prompt
    /\ SubSeq(prompts', 1, Len(prompts)) = prompts

LastAnswer == prompts'[Len(prompts')].answer

\* the answer, trimmed, is a decimal number as Python writes one: an optional
\* sign, then groups of digits separated by single underscores; SelectedNumber
\* is its value
IsNumber(answer) ==
    LET t == Core(answer, SpaceChars)
        body == IF t # <<>> /\ t[1] \in {"+", "-"} THEN Tail(t) ELSE t
    IN  /\ body # <<>>
        /\ \A i \in 1..Len(body) :
              \/ body[i] \in DigitChars
              \/ /\ body[i] = "_"
                 /\ i > 1 /\ i < Len(body)
                 /\ body[i - 1] \in DigitChars /\ body[i + 1] \in DigitChars
SelectedNumber(answer) == int_of(Core(answer, SpaceChars)).value
ValidSelection(answer) ==
    IsNumber(answer) /\ SelectedNumber(answer) \in 1..NumSchemas

\* C12: once the menu is displayed the shell leaves only on a menu answer of 0
\* or on an answer other than 'y' to the continue prompt; a batch is run only
\* by the execution that follows a menu answer in 1..3; every execution,
\* successful or failed, is followed by the continue prompt; a non-numeric or
\* out-of-range menu answer leads back to the menu with nothing run and no
\* continue prompt asked.
C12_ShellLoop ==
    [][ InShell =>
          /\ pc' \in {"menu", "execute_schema_files", "continue_prompt", "returned"}
          /\ pc' = "returned" =>
                \/ pc = "menu" /\ JustAsked("menu") /\ IsNumber(LastAnswer)
                               /\ SelectedNumber(LastAnswer) = 0
                \/ pc = "continue_prompt" /\ JustAsked("continue")
                               /\ LastAnswer # <<"y">>
          /\ pc' = "execute_schema_files" =>
                pc = "menu" /\ JustAsked("menu") /\ ValidSelection(LastAnswer)
          /\ calls' # calls => pc = "execute_schema_files"
          /\ pc = "execute_schema_files" =>
                pc' = "continue_prompt" /\ prompts' = prompts /\ ret'.returned
          /\ pc = "continue_prompt" => JustAsked("continue")
          /\ pc = "menu" =>
                /\ JustAsked("menu")
                /\ ~ValidSelection(LastAnswer)
                   /\ ~(IsNumber(LastAnswer) /\ SelectedNumber(LastAnswer) = 0) =>
                      pc' = "menu" /\ calls' = calls /\ ret' = ret
      ]_vars

\* a non-numeric answer, an out-of-range answer, then a selection whose
\* execution failed, and the continue prompt answered with 'n'
C12_Witness ==
    /\ script = "ddl_automation"
    /\ pc = "returned"
    /\ Len(prompts) = 4
    /\ prompts[1] = [prompt |-> "menu", answer |-> <<"x">>]
    /\ prompts[2] = [prompt |-> "menu", answer |-> <<"4">>]
    /\ prompts[3].prompt = "menu"
    /\ prompts[4] = [prompt |-> "continue", answer |-> <<"n">>]
    /\ ret.returned /\ ~ret.success

(***************************************************************************)
(* The password on its way to the child process                            *)
(***************************************************************************)
\* C13: in every subprocess invocation of every script, the listing call of
\* drop_objects_by_type included, no argument holds the configured password;
\* the child's environment is the parent's with SNOWSQL_PWD set to the
\* password, and the parent's own environment stays as it was, without
\* SNOWSQL_PWD.
C13_PasswordOnlyInChildEnv ==
    /\ os_environ = OsEnviron
    /\ "SNOWSQL_PWD" \notin DOMAIN os_environ
    /\ \A i \in 1..Len(calls) :
          LET password == config["connection"]["password"]
          IN  /\ \A j \in 1..Len(calls[i].argv) : ~Contains(calls[i].argv[j], password)
              /\ DOMAIN calls[i].env = DOMAIN os_environ \cup {"SNOWSQL_PWD"}
              /\ calls[i].env["SNOWSQL_PWD"] = password
              /\ \A k \in DOMAIN os_environ : calls[i].env[k] = os_environ[k]

\* the drop script after a connectivity test, a metadata query, a listing
\* with its four output options and a DROP batch
C13_Witness ==
    /\ script = "drop_automator"
    /\ Len(calls) = 4
    /\ calls[1].kind = "test"
    /\ calls[2].kind = "show_objects"
    /\ calls[3].kind = "list" /\ Len(calls[3].argv) = 21
    /\ calls[4].kind = "drop" /\ Len(calls[4].argv) = 13
    /\ calls[4].env["SNOWSQL_PWD"] = <<"p","w">>

(***************************************************************************)
(* SpecStages: execute_all_ddls over layouts with files of all three stages *)
(***************************************************************************)
\* every layout over five paths, two of them in a second folder, each file
\* blank, a table in schema raw, or two statements naming no schema
StageLayouts ==
    LET curated_t == <<"c","u","r","a","t","e","d",".","t",".","s","q","l">>
        paths == { <<D_a, F_raw_t>>, <<D_a, F_stage_t>>, <<D_a, curated_t>>,
                   <<D_a_b, F_raw_t>>, <<D_a_b, curated_t>> }
    IN  UNION { { {DdlFile(p[1], p[2], f[p]) : p \in P} :
                    f \in [P -> {C_blank, C_raw_table, C_two_statements}] } :
                P \in SUBSET paths }

\* main() has tested the connection and is about to call execute_all_ddls
InitStages ==
    /\ script = "autmation"
    /\ pc = "execute_all_ddls"
    /\ config \in {FullConfig(IdentitySchemas, T_raw), FullConfig(DbSchemas, T_raw)}
    /\ ddl_files \in StageLayouts
    /\ listing_stdout = EmptyListing
    /\ file_prefix = <<>>
    /\ stage_idx = 0
    /\ calls = <<>>
    /\ ret = NotReturned
    /\ file_info = <<>>
    /\ prompts = <<>>
    /\ views_success = FALSE
    /\ object_names = <<>>
    /\ os_environ = OsEnviron
    /\ connection = "ok"
    /\ ResolverIdle

NextStages ==
    \/ execute_all_ddls_enter
    \/ execute_all_ddls_stage

SpecStages == InitStages /\ [][NextStages]_vars

\* the stage processed by the i-th iteration, by the order the claim fixes
StageOf(i) ==
    IF i = 1 THEN <<"r","a","w">>
    ELSE IF i = 2 THEN <<"s","t","a","g","e">>
    ELSE <<"c","u","r","a","t","e","d">>

\* C14: execute_all_ddls processes raw, then stage, then curated, each once;
\* the iteration of a stage makes no invocation when the stage has no
\* non-empty matching file and exactly one otherwise, for the batch of that
\* stage's files; whatever that batch returned, the loop goes on to the next
\* stage and ends after curated.
C14_StagesInFixedOrder ==
    [][ script = "autmation" /\ pc = "stage_loop" =>
          /\ stage_idx \in 1..3
          /\ stage_idx' = stage_idx + 1
          /\ pc' = IF stage_idx = 3 THEN "returned" ELSE "stage_loop"
          /\ BatchFilesOf(StageOf(stage_idx)) = {} => calls' = calls
          /\ BatchFilesOf(StageOf(stage_idx)) # {} =>
                /\ Len(calls') = Len(calls) + 1
                /\ SubSeq(calls', 1, Len(calls)) = calls
                /\ calls'[Len(calls')].kind = "batch"
                /\ Len(file_info') = Cardinality(BatchFilesOf(StageOf(stage_idx)))
                /\ \A k \in 1..Len(file_info') :
                      NameHasPrefix(file_info'[k].name, StageOf(stage_idx))
                /\ calls'[Len(calls')].query =
                      Terminated([k \in 1..Len(file_info') |-> file_info'[k].query])
      ]_vars

\* the raw and stage batches were sent, the stage batch failed, and the loop
\* stands at curated, which has a file to run
C14_Witness ==
    /\ script = "autmation"
    /\ pc = "stage_loop"
    /\ stage_idx = 3
    /\ Len(calls) = 2
    /\ ret.returned /\ ~ret.success /\ ret.count > 0
    /\ BatchFilesOf(StageOf(3)) # {}

====
